---- MODULE Spec2Model ----
(***************************************************************************)
(* A state-machine model of the software-timer library                     *)
(* (src/src/software_timer.c and its sibling src/src/timer.c) driven by    *)
(* the mock clock of src/example/test/test_timer.c.                        *)
(*                                                                         *)
(* Word width.  The library computes with uint32_t.  TLC's integers are    *)
(* 32-bit signed, so 2^32 is not representable; the model keeps the        *)
(* modular arithmetic and scales the word to Modulus values                *)
(* (0 .. Modulus-1 stands for 0 .. 2^32-1, Modulus-1 for UINT32_MAX).      *)
(* Every formula is stated relative to Modulus.                            *)
(***************************************************************************)
EXTENDS Integers, FiniteSets

\* ------------------------------------------------------------------ bounds

\* Number of values of the scaled unsigned word (stands for 2^32).
Modulus == 8

\* Largest number of ticks one advance_time call adds.
MaxAdvance == 3

\* Last clock value a program with several timers runs to.
MaxMultiTime == 3

\* ----------------------------------------------------------- value spaces

Word == 0 .. (Modulus - 1)

\* The timer objects a program can define; a program defines some of them,
\* all sharing the one clock binding.
Timers == {"timer1", "timer2"}

\* The single timer object of a program such as src/example/src/main.c.
MainTimers == {"timer1"}

\* The null function pointer / the clock callback of the test harness.
NULL == "NULL"
Clocks == {"mock_clock_time"}

\* The two sibling libraries a program can be linked against.
Impls == {"software_timer", "timer"}

\* typedef struct { uint32_t start; uint32_t interval; bool evaluated; }
SoftwareTimer == [start : Word, interval : Word, evaluated : BOOLEAN]

\* Conversion of a mathematical integer to the unsigned word type.
U32(x) == x % Modulus

Min(a, b) == IF a <= b THEN a ELSE b

VARIABLES
    impl,        \* which library the program is linked against
    status,      \* "running", "aborted" (assert failed) or "crashed" (null call)
    clockTime,   \* static clock binding: NULL or a clock callback
    mock_time,   \* the tick counter behind mock_clock_time
    monotonic,   \* CLOCK_MONOTONIC in milliseconds, the counter behind millis
    timers,      \* the timer objects
    call,        \* the most recent call: [op, t, now, arg]
    ret,         \* its return value: ret.bool of a bool function,
                 \* ret.u32 of a uint32_t function (VOID otherwise)
    arming,      \* history: per timer, facts about its most recent Set
    ctx,         \* per execution context, where it is inside a call that
                 \* other contexts can interleave with: [pc, t, arg]
    sibling      \* the same program linked against timer.c and run beside
                 \* this one, call by call: [clockTime, timers, ret]

vars == <<impl, status, clockTime, mock_time, monotonic, timers, call, ret,
          arming, ctx, sibling>>

NoTimer == "none"
\* The return record of a call that returns nothing.
VOID == [bool |-> FALSE, u32 |-> 0]

\* The return records of a bool and of a uint32_t function.
Bool(b) == [bool |-> b, u32 |-> 0]
Uint32(n) == [bool |-> FALSE, u32 |-> n]

\* The execution contexts of a program (threads, or a main loop and an
\* interrupt handler), and a context that is inside no library call.
Contexts == {"context1", "context2"}
Idle == [pc |-> "idle", t |-> NoTimer, arg |-> 0]

\* A timer object that is a zero-initialised static.
Zeroed == [start |-> 0, interval |-> 0, evaluated |-> FALSE]

\* The sibling program before its first call: its clock binding is a
\* zero-initialised static, its timer objects hold what ts holds.
SiblingStart(ts) == [clockTime |-> NULL, timers |-> ts, ret |-> VOID]

\* ---------------------------------------------------------- the clock

\* static uint32_t mock_clock_time(void) { return mock_time; }
mock_clock_time == mock_time

\* uint32_t millis() { clock_gettime(CLOCK_MONOTONIC, &ts); return (uint32_t)
\* (ts.tv_sec * 1000 + ts.tv_nsec / 1000000); }  (src/example/src/main.c)
millis == U32(monotonic)

\* Every clock callback the repository defines.
ProgramClocks == {"mock_clock_time", "millis"}

\* (every callback reads the tick counter of the test harness)
ClockValue_OneSource(c) == mock_clock_time

\* The value a call through clock callback c returns.
ClockValue(c) == IF c = "millis" THEN millis ELSE mock_clock_time

\* ------------------------------------------------ software_timer.c (pure)

\* (the evaluated flag is not cleared)
SoftwareTimer_Set_KeepsEvaluated(timer, now, interval) ==
    [timer EXCEPT !.start = now, !.interval = interval]

\* (the start tick is not captured)
SoftwareTimer_Set_KeepsStart(timer, now, interval) ==
    [timer EXCEPT !.interval = interval, !.evaluated = FALSE]

\* (the interval is not stored)
SoftwareTimer_Set_KeepsInterval(timer, now, interval) ==
    [timer EXCEPT !.start = now, !.evaluated = FALSE]

\* timer->start = clockTime(); timer->interval = interval;
\* timer->evaluated = false;
SoftwareTimer_Set(timer, now, interval) ==
    [timer EXCEPT !.start = now, !.interval = interval, !.evaluated = FALSE]

\* (a saturating difference instead of the unsigned, wrapping one)
SoftwareTimer_IsExpired_Saturating(timer, now) ==
    (IF now >= timer.start THEN now - timer.start ELSE 0) >= timer.interval

\* The value of word x read as a two's-complement signed integer.
Signed(x) == IF 2 * x >= Modulus THEN x - Modulus ELSE x

\* (the comparison made on signed values)
SoftwareTimer_IsExpired_Signed(timer, now) ==
    IF Signed(U32(now - timer.start)) >= Signed(timer.interval)
    THEN TRUE ELSE FALSE

\* (a strict comparison: not yet expired at exactly interval ticks)
SoftwareTimer_IsExpired_Strict(timer, now) ==
    IF U32(now - timer.start) > timer.interval THEN TRUE ELSE FALSE

\* if (clockTime() - timer->start >= timer->interval) return true;
\* return false;
SoftwareTimer_IsExpired(timer, now) ==
    IF U32(now - timer.start) >= timer.interval THEN TRUE ELSE FALSE

\* (a saturating difference instead of the unsigned, wrapping one)
SoftwareTimer_Remaining_Saturating(timer, now) ==
    LET elapsed == IF now >= timer.start THEN now - timer.start ELSE 0
    IN  IF elapsed >= timer.interval THEN 0 ELSE U32(timer.interval - elapsed)

\* (the expiry test left out: the subtraction underflows once expired)
SoftwareTimer_Remaining_Unguarded(timer, now) ==
    LET elapsed == U32(now - timer.start)
    IN  U32(timer.interval - elapsed)

\* uint32_t elapsed = clockTime() - timer->start;
\* if (elapsed >= timer->interval) return 0;
\* return timer->interval - elapsed;
SoftwareTimer_Remaining(timer, now) ==
    LET elapsed == U32(now - timer.start)
    IN  IF elapsed >= timer.interval THEN 0 ELSE U32(timer.interval - elapsed)

\* (the evaluated flag is not set on expiry)
SoftwareTimer_IsExpiredEvaluatedOnce_NoLatch(timer, now) ==
    IF timer.evaluated
    THEN [ret |-> FALSE, timer |-> timer]
    ELSE IF U32(now - timer.start) >= timer.interval
         THEN [ret |-> TRUE, timer |-> timer]
         ELSE [ret |-> FALSE, timer |-> timer]

\* (the evaluated flag is set by every call that finds it clear)
SoftwareTimer_IsExpiredEvaluatedOnce_EagerLatch(timer, now) ==
    IF timer.evaluated
    THEN [ret |-> FALSE, timer |-> timer]
    ELSE [ret |-> IF U32(now - timer.start) >= timer.interval
                  THEN TRUE ELSE FALSE,
          timer |-> [timer EXCEPT !.evaluated = TRUE]]

\* (the expiry comparison of the one-shot query made on signed values)
SoftwareTimer_IsExpiredEvaluatedOnce_Signed(timer, now) ==
    IF timer.evaluated
    THEN [ret |-> FALSE, timer |-> timer]
    ELSE IF Signed(U32(now - timer.start)) >= Signed(timer.interval)
         THEN [ret |-> TRUE, timer |-> [timer EXCEPT !.evaluated = TRUE]]
         ELSE [ret |-> FALSE, timer |-> timer]

\* if (timer->evaluated) return false;
\* if (clockTime() - timer->start >= timer->interval) {
\*     timer->evaluated = true; return true; }
\* return false;
\* The result is the pair (returned value, timer afterwards).
SoftwareTimer_IsExpiredEvaluatedOnce(timer, now) ==
    IF timer.evaluated
    THEN [ret |-> FALSE, timer |-> timer]
    ELSE IF U32(now - timer.start) >= timer.interval
         THEN [ret |-> TRUE, timer |-> [timer EXCEPT !.evaluated = TRUE]]
         ELSE [ret |-> FALSE, timer |-> timer]

\* ----------------------------------------------------------- timer.c (pure)

\* timer->start = clockTime(); timer->interval = interval;
\* (evaluated is not written)
Timer_Set(timer, now, interval) ==
    [timer EXCEPT !.start = now, !.interval = interval]

\* (the comparison made on signed values)
Timer_IsExpired_Signed(timer, now) ==
    IF Signed(U32(now - timer.start)) >= Signed(timer.interval)
    THEN TRUE ELSE FALSE

\* if (clockTime() - timer->start >= timer->interval) return true;
\* return false;
Timer_IsExpired(timer, now) ==
    IF U32(now - timer.start) >= timer.interval THEN TRUE ELSE FALSE

\* uint32_t elapsed = clockTime() - timer->start;
\* if (elapsed >= timer->interval) return 0;
\* return timer->interval - elapsed;
Timer_Remaining(timer, now) ==
    LET elapsed == U32(now - timer.start)
    IN  IF elapsed >= timer.interval THEN 0 ELSE U32(timer.interval - elapsed)

\* ------------------------------------------------------------- history

\* Facts about a timer's most recent Set, kept beside the program state
\* (and forgotten once the program has run into undefined behaviour):
\*   armed    a Set through a bound clock has completed on the timer
\*   tick     the clock value that Set read
\*   interval the interval that Set was given
\*   elapsed  ticks advanced since that Set, saturating at Modulus
\*            (Modulus means "a full clock period or more")
\*   fired    IsExpiredEvaluatedOnce calls that returned true since that Set
\*            (saturating at 2)
\*   rearmed  that Set came after an IsExpiredEvaluatedOnce call had returned
\*            true for an earlier arming of the same timer
\*   expired  IsExpired calls that returned true since that Set
\*            (saturating at 2)
\*   clock    the clock callback that was bound at that Set; elapsed counts
\*            the ticks of that clock
Arming == [armed : BOOLEAN, tick : Word, interval : Word,
           elapsed : 0 .. Modulus, fired : 0 .. 2, rearmed : BOOLEAN,
           expired : 0 .. 2, clock : ProgramClocks \cup {NULL}]

Unarmed == [armed |-> FALSE, tick |-> 0, interval |-> 0,
            elapsed |-> 0, fired |-> 0, rearmed |-> FALSE, expired |-> 0,
            clock |-> NULL]

\* ------------------------------------------------------------------ Init

\* The clock binding is a zero-initialised static (NULL); a timer object is
\* uninitialised memory (any content); the tick source has any value.
\* The sibling program is run only in SpecSiblings; elsewhere it stays
\* at its start.
Init ==
    /\ impl \in Impls
    /\ status = "running"
    /\ clockTime = NULL
    /\ mock_time \in Word
    /\ monotonic = 0
    /\ timers \in [MainTimers -> SoftwareTimer]
    /\ call = [op |-> "start", t |-> NoTimer, now |-> 0, arg |-> 0]
    /\ ret = VOID
    /\ arming = [t \in DOMAIN timers |-> Unarmed]
    /\ ctx = [c \in Contexts |-> Idle]
    /\ sibling = SiblingStart([t \in DOMAIN timers |-> Zeroed])

\* ------------------------------------------------------------ dispatch

\* The function of the linked library that a call reaches.
SetOf(timer, now, interval) ==
    IF impl = "timer" THEN Timer_Set(timer, now, interval)
    ELSE SoftwareTimer_Set(timer, now, interval)

IsExpiredOf(timer, now) ==
    IF impl = "timer" THEN Timer_IsExpired(timer, now)
    ELSE SoftwareTimer_IsExpired(timer, now)

RemainingOf(timer, now) ==
    IF impl = "timer" THEN Timer_Remaining(timer, now)
    ELSE SoftwareTimer_Remaining(timer, now)

\* --------------------------------------------------- precondition checks

\* SOFTWARETIMER_ASSERT(expr) in the default build is assert(expr): a false
\* expr aborts the program.  AssertFails(expr) is "the assertion traps".
AssertFails(expr) == impl = "software_timer" /\ ~expr

\* timer.c has no checks: with the binding still NULL, clockTime() is a call
\* through a null function pointer (undefined behaviour).
NullClockCall == impl = "timer" /\ clockTime = NULL

\* timer.c has no checks: timer->start with a null timer is an access
\* through a null pointer (undefined behaviour).
NullTimerAccess(t) == impl = "timer" /\ t = NULL

\* The call op(t) ends the program with status s; nothing else is written.
Stop(s, op, t) ==
    /\ status' = s
    /\ call' = [op |-> op, t |-> t, now |-> 0, arg |-> 0]
    /\ ret' = VOID
    /\ UNCHANGED <<ctx, monotonic, impl, clockTime, mock_time, timers, arming>>

\* The history after undefined behaviour: nothing is known any more.
Forgotten == [t \in DOMAIN arming |-> Unarmed]

\* The call op through a null timer pointer in timer.c went on: what it
\* read is any value, what it stored went to no timer object.
Wild(op) ==
    /\ call' = [op |-> op, t |-> NULL, now |-> 0, arg |-> 0]
    /\ ret' \in (IF op = "IsExpired" THEN {Bool(b) : b \in BOOLEAN}
                 ELSE IF op = "Remaining" THEN {Uint32(n) : n \in Word}
                 ELSE {VOID})
    /\ arming' = Forgotten
    /\ UNCHANGED <<ctx, monotonic, impl, status, clockTime, mock_time, timers>>

\* The values a completed clockTime() call can have returned: the bound
\* clock's tick, or anything after the undefined null call in timer.c.
ClockReads ==
    IF clockTime # NULL THEN {ClockValue(clockTime)}
    ELSE IF impl = "timer" THEN Word ELSE {}

\* ---------------------------------------------------------------- actions

\* (the binding is stored before the check is made)
CallInit_StoreFirst(clock) ==
    /\ status = "running"
    /\ clockTime' = clock
    /\ status' = IF AssertFails(clock # NULL) THEN "aborted" ELSE status
    /\ call' = [op |-> "Init", t |-> NoTimer, now |-> 0, arg |-> 0]
    /\ ret' = VOID
    /\ UNCHANGED <<ctx, monotonic, impl, mock_time, timers, arming>>

\* SoftwareTimer_Init(clock) / Timer_Init(clock)
CallInit(clock) ==
    /\ status = "running"
    /\ \/ /\ AssertFails(clock # NULL)
          /\ Stop("aborted", "Init", NoTimer)
       \/ /\ ~AssertFails(clock # NULL)
          /\ clockTime' = clock
          /\ call' = [op |-> "Init", t |-> NoTimer, now |-> 0, arg |-> 0]
          /\ ret' = VOID
          /\ UNCHANGED <<ctx, monotonic, impl, status, mock_time, timers, arming>>

\* (the arming is written to every timer object, as if they shared storage)
CallSet_SharedRecord(t, interval) ==
    /\ status = "running"
    /\ \/ /\ AssertFails(t # NULL) \/ AssertFails(clockTime # NULL)
          /\ Stop("aborted", "Set", t)
       \/ /\ NullClockCall \/ NullTimerAccess(t)
          /\ Stop("crashed", "Set", t)
       \/ /\ NullTimerAccess(t)
          /\ Wild("Set")
       \/ \E now \in ClockReads :
          /\ t # NULL
          /\ timers' = [u \in DOMAIN timers |->
                           SetOf(timers[u], now, interval)]
          /\ call' = [op |-> "Set", t |-> t, now |-> now, arg |-> interval]
          /\ ret' = VOID
          /\ arming' =
                IF clockTime = NULL THEN Forgotten
                ELSE [arming EXCEPT ![t] =
                     [armed |-> TRUE, tick |-> now, interval |-> interval,
                      elapsed |-> 0, fired |-> 0,
                      rearmed |-> arming[t].armed /\ arming[t].fired > 0,
                      expired |-> 0, clock |-> clockTime]]
          /\ UNCHANGED <<ctx, monotonic, impl, status, clockTime, mock_time>>

\* (the checks are made after the fields are written: interval and evaluated
\* are stored even when a check fails)
CallSet_LateCheck(t, interval) ==
    /\ status = "running"
    /\ \/ /\ AssertFails(t # NULL)
          /\ Stop("aborted", "Set", t)
       \/ /\ t # NULL
          /\ AssertFails(clockTime # NULL)
          /\ status' = "aborted"
          /\ timers' = [timers EXCEPT ![t].interval = interval,
                                      ![t].evaluated = FALSE]
          /\ call' = [op |-> "Set", t |-> t, now |-> 0, arg |-> 0]
          /\ ret' = VOID
          /\ UNCHANGED <<ctx, monotonic, impl, clockTime, mock_time, arming>>
       \/ /\ NullClockCall \/ NullTimerAccess(t)
          /\ Stop("crashed", "Set", t)
       \/ /\ NullTimerAccess(t)
          /\ Wild("Set")
       \/ \E now \in ClockReads :
          /\ t # NULL
          /\ timers' = [timers EXCEPT ![t] = SetOf(timers[t], now, interval)]
          /\ call' = [op |-> "Set", t |-> t, now |-> now, arg |-> interval]
          /\ ret' = VOID
          /\ arming' =
                IF clockTime = NULL THEN Forgotten
                ELSE [arming EXCEPT ![t] =
                     [armed |-> TRUE, tick |-> now, interval |-> interval,
                      elapsed |-> 0, fired |-> 0,
                      rearmed |-> arming[t].armed /\ arming[t].fired > 0,
                      expired |-> 0, clock |-> clockTime]]
          /\ UNCHANGED <<ctx, monotonic, impl, status, clockTime, mock_time>>

\* SoftwareTimer_Set(&t, interval) / Timer_Set(&t, interval); t is a timer
\* object or NULL.
CallSet(t, interval) ==
    /\ status = "running"
    /\ \/ /\ AssertFails(t # NULL) \/ AssertFails(clockTime # NULL)
          /\ Stop("aborted", "Set", t)
       \/ /\ NullClockCall \/ NullTimerAccess(t)
          /\ Stop("crashed", "Set", t)
       \/ /\ NullTimerAccess(t)
          /\ Wild("Set")
       \/ \E now \in ClockReads :
          /\ t # NULL
          /\ timers' = [timers EXCEPT ![t] = SetOf(timers[t], now, interval)]
          /\ call' = [op |-> "Set", t |-> t, now |-> now, arg |-> interval]
          /\ ret' = VOID
          /\ arming' =
                IF clockTime = NULL THEN Forgotten
                ELSE [arming EXCEPT ![t] =
                     [armed |-> TRUE, tick |-> now, interval |-> interval,
                      elapsed |-> 0, fired |-> 0,
                      rearmed |-> arming[t].armed /\ arming[t].fired > 0,
                      expired |-> 0, clock |-> clockTime]]
          /\ UNCHANGED <<ctx, monotonic, impl, status, clockTime, mock_time>>

\* (a true result also sets the evaluated flag, consuming the one-shot)
CallIsExpired_Consuming(t) ==
    /\ status = "running"
    /\ \/ /\ AssertFails(t # NULL) \/ AssertFails(clockTime # NULL)
          /\ Stop("aborted", "IsExpired", t)
       \/ /\ NullClockCall \/ NullTimerAccess(t)
          /\ Stop("crashed", "IsExpired", t)
       \/ /\ NullTimerAccess(t)
          /\ Wild("IsExpired")
       \/ \E now \in ClockReads :
          /\ t # NULL
          /\ ret' = Bool(IsExpiredOf(timers[t], now))
          /\ call' = [op |-> "IsExpired", t |-> t, now |-> now, arg |-> 0]
          /\ timers' = [timers EXCEPT ![t].evaluated =
                           @ \/ IsExpiredOf(timers[t], now)]
          /\ arming' =
                IF clockTime = NULL THEN Forgotten
                ELSE [arming EXCEPT ![t].expired =
                     IF IsExpiredOf(timers[t], now) /\ arming[t].armed
                     THEN Min(@ + 1, 2) ELSE @]
          /\ UNCHANGED <<ctx, monotonic, impl, status, clockTime, mock_time>>

\* SoftwareTimer_IsExpired(&t) / Timer_IsExpired(&t)
CallIsExpired(t) ==
    /\ status = "running"
    /\ \/ /\ AssertFails(t # NULL) \/ AssertFails(clockTime # NULL)
          /\ Stop("aborted", "IsExpired", t)
       \/ /\ NullClockCall \/ NullTimerAccess(t)
          /\ Stop("crashed", "IsExpired", t)
       \/ /\ NullTimerAccess(t)
          /\ Wild("IsExpired")
       \/ \E now \in ClockReads :
          /\ t # NULL
          /\ ret' = Bool(IsExpiredOf(timers[t], now))
          /\ call' = [op |-> "IsExpired", t |-> t, now |-> now, arg |-> 0]
          /\ arming' =
                IF clockTime = NULL THEN Forgotten
                ELSE [arming EXCEPT ![t].expired =
                     IF IsExpiredOf(timers[t], now) /\ arming[t].armed
                     THEN Min(@ + 1, 2) ELSE @]
          /\ UNCHANGED <<ctx, monotonic, impl, status, clockTime, mock_time, timers>>

\* SoftwareTimer_Remaining(&t) / Timer_Remaining(&t)
CallRemaining(t) ==
    /\ status = "running"
    /\ \/ /\ AssertFails(t # NULL) \/ AssertFails(clockTime # NULL)
          /\ Stop("aborted", "Remaining", t)
       \/ /\ NullClockCall \/ NullTimerAccess(t)
          /\ Stop("crashed", "Remaining", t)
       \/ /\ NullTimerAccess(t)
          /\ Wild("Remaining")
       \/ \E now \in ClockReads :
          /\ t # NULL
          /\ ret' = Uint32(RemainingOf(timers[t], now))
          /\ call' = [op |-> "Remaining", t |-> t, now |-> now, arg |-> 0]
          /\ arming' = IF clockTime = NULL THEN Forgotten ELSE arming
          /\ UNCHANGED <<ctx, monotonic, impl, status, clockTime, mock_time, timers>>

\* SoftwareTimer_IsExpiredEvaluatedOnce(&t).  timer.h declares
\* Timer_IsExpiredEvaluatedOnce but timer.c does not define it, so only a
\* program linked against software_timer.c can make this call.
CallIsExpiredEvaluatedOnce(t) ==
    /\ status = "running"
    /\ impl = "software_timer"
    /\ \/ /\ AssertFails(t # NULL) \/ AssertFails(clockTime # NULL)
          /\ Stop("aborted", "IsExpiredEvaluatedOnce", t)
       \/ \E now \in ClockReads :
          /\ t # NULL
          /\ LET r == SoftwareTimer_IsExpiredEvaluatedOnce(timers[t], now)
             IN  /\ ret' = Bool(r.ret)
                 /\ timers' = [timers EXCEPT ![t] = r.timer]
                 /\ call' = [op |-> "IsExpiredEvaluatedOnce", t |-> t,
                             now |-> now, arg |-> 0]
                 /\ arming' = [arming EXCEPT ![t].fired =
                       IF r.ret /\ arming[t].armed THEN Min(@ + 1, 2) ELSE @]
                 /\ UNCHANGED <<ctx, monotonic, impl, status, clockTime, mock_time>>

\* static void advance_time(uint32_t ticks) { mock_time += ticks; }
advance_time(ticks) ==
    /\ status = "running"
    /\ mock_time' = U32(mock_time + ticks)
    /\ call' = [op |-> "advance_time", t |-> NoTimer, now |-> 0, arg |-> 0]
    /\ ret' = VOID
    /\ arming' = [t \in DOMAIN arming |->
          IF arming[t].armed /\ arming[t].clock = "mock_clock_time"
          THEN [arming[t] EXCEPT !.elapsed = Min(@ + ticks, Modulus)]
          ELSE arming[t]]
    /\ UNCHANGED <<ctx, monotonic, impl, status, clockTime, timers>>

\* The timer arguments of a call: the program's timer objects and NULL.
TimerArgs == DOMAIN timers \cup {NULL}

Next ==
    \/ \E clock \in Clocks \cup {NULL} : CallInit(clock) /\ UNCHANGED sibling
    \/ \E t \in TimerArgs, interval \in Word : CallSet(t, interval) /\ UNCHANGED sibling
    \/ \E t \in TimerArgs : CallIsExpired(t) /\ UNCHANGED sibling
    \/ \E t \in TimerArgs : CallRemaining(t) /\ UNCHANGED sibling
    \/ \E t \in TimerArgs : CallIsExpiredEvaluatedOnce(t) /\ UNCHANGED sibling
    \/ \E ticks \in 1 .. MaxAdvance : advance_time(ticks) /\ UNCHANGED sibling

Spec == Init /\ [][Next]_vars

TypeOK ==
    /\ impl \in Impls
    /\ status \in {"running", "aborted", "crashed"}
    /\ clockTime \in ProgramClocks \cup {NULL}
    /\ mock_time \in Word
    /\ monotonic \in Word
    /\ ret \in [bool : BOOLEAN, u32 : Word]
    /\ DOMAIN timers \subseteq Timers
    /\ timers \in [DOMAIN timers -> SoftwareTimer]
    /\ arming \in [DOMAIN timers -> Arming]
    /\ ctx \in [Contexts -> [pc : {"idle", "Set_95", "Set_96", "Once_161",
                                   "Once_162"},
                             t : Timers \cup {NoTimer}, arg : Word]]
    /\ sibling \in [clockTime : ProgramClocks \cup {NULL},
                    timers : [DOMAIN timers -> SoftwareTimer],
                    ret : [bool : BOOLEAN, u32 : Word]]

\* ------------------------------------------ a program with several timers

\* The intervals the timers of such a program are armed with.
MultiIntervals == {0, 2}

\* SoftwareTimer myTimer; at file scope (src/example/src/main.c): the timer
\* objects are zero-initialised statics; the tick source starts at 0 as
\* after reset_timer_system() in the test harness.
InitMulti ==
    /\ impl \in Impls
    /\ status = "running"
    /\ clockTime = NULL
    /\ mock_time = 0
    /\ monotonic = 0
    /\ timers = [t \in Timers |->
                    [start |-> 0, interval |-> 0, evaluated |-> FALSE]]
    /\ call = [op |-> "start", t |-> NoTimer, now |-> 0, arg |-> 0]
    /\ ret = VOID
    /\ arming = [t \in DOMAIN timers |-> Unarmed]
    /\ ctx = [c \in Contexts |-> Idle]
    /\ sibling = SiblingStart(timers)

\* advance_time(1) while the clock is below MaxMultiTime.
Tick ==
    /\ mock_time < MaxMultiTime
    /\ advance_time(1)

NextMulti ==
    \/ \E clock \in Clocks \cup {NULL} : CallInit(clock) /\ UNCHANGED sibling
    \/ \E t \in DOMAIN timers, interval \in MultiIntervals :
          CallSet(t, interval) /\ UNCHANGED sibling
    \/ \E t \in DOMAIN timers : CallIsExpired(t) /\ UNCHANGED sibling
    \/ \E t \in DOMAIN timers : CallRemaining(t) /\ UNCHANGED sibling
    \/ \E t \in DOMAIN timers : CallIsExpiredEvaluatedOnce(t) /\ UNCHANGED sibling
    \/ Tick /\ UNCHANGED sibling

SpecMulti == InitMulti /\ [][NextMulti]_vars

\* ---------------------------------- a program with two execution contexts

\* Last clock value and the intervals of such a program.
MaxConcTime == 3
ConcIntervals == {0, 2}

\* The program is linked against software_timer.c and has one timer object,
\* a zero-initialised static; no call is in progress.
InitConc ==
    /\ impl = "software_timer"
    /\ status = "running"
    /\ clockTime = NULL
    /\ mock_time = 0
    /\ monotonic = 0
    /\ timers = [t \in MainTimers |->
                    [start |-> 0, interval |-> 0, evaluated |-> FALSE]]
    /\ call = [op |-> "start", t |-> NoTimer, now |-> 0, arg |-> 0]
    /\ ret = VOID
    /\ arming = [t \in DOMAIN timers |-> Unarmed]
    /\ ctx = [c \in Contexts |-> Idle]
    /\ sibling = SiblingStart(timers)

\* A call is divided at its accesses to the timer object: each action below
\* is one access with the local computation around it, and runs atomically;
\* between two of them the other context can run.  call and ret are written
\* when a call returns or stops.

\* Context c is at program point pc of a call on timer t.
At(c, pc, t) == ctx[c].pc = pc /\ ctx[c].t = t

\* (start and interval are stored together by the first step)
SetStart_WithInterval(c, t, interval) ==
    /\ status = "running"
    /\ ctx[c].pc = "idle"
    /\ \/ /\ AssertFails(clockTime # NULL)
          /\ Stop("aborted", "Set", t)
       \/ /\ clockTime # NULL
          /\ timers' = [timers EXCEPT ![t].start = ClockValue(clockTime),
                                      ![t].interval = interval]
          /\ ctx' = [ctx EXCEPT ![c] =
                        [pc |-> "Set_95", t |-> t, arg |-> interval]]
          /\ UNCHANGED <<monotonic, impl, status, clockTime, mock_time, call, ret,
                         arming>>

\* SoftwareTimer_Set, lines 92-94: the two checks, then
\* timer->start = clockTime();
SetStart(c, t, interval) ==
    /\ status = "running"
    /\ ctx[c].pc = "idle"
    /\ \/ /\ AssertFails(clockTime # NULL)
          /\ Stop("aborted", "Set", t)
       \/ /\ clockTime # NULL
          /\ timers' = [timers EXCEPT ![t].start = ClockValue(clockTime)]
          /\ ctx' = [ctx EXCEPT ![c] =
                        [pc |-> "Set_95", t |-> t, arg |-> interval]]
          /\ UNCHANGED <<monotonic, impl, status, clockTime, mock_time, call, ret,
                         arming>>

\* SoftwareTimer_Set, line 95: timer->interval = interval;
SetInterval(c) ==
    /\ status = "running"
    /\ ctx[c].pc = "Set_95"
    /\ timers' = [timers EXCEPT ![ctx[c].t].interval = ctx[c].arg]
    /\ ctx' = [ctx EXCEPT ![c] = [pc |-> "Set_96", t |-> ctx[c].t, arg |-> 0]]
    /\ UNCHANGED <<monotonic, impl, status, clockTime, mock_time, call, ret, arming>>

\* SoftwareTimer_Set, lines 96-97: timer->evaluated = false; and return.
\* The arming the Set leaves is the one in the timer object at this point.
SetEvaluated(c) ==
    /\ status = "running"
    /\ ctx[c].pc = "Set_96"
    /\ LET t == ctx[c].t
       IN  /\ timers' = [timers EXCEPT ![t].evaluated = FALSE]
           /\ call' = [op |-> "Set", t |-> t, now |-> timers[t].start,
                       arg |-> timers[t].interval]
           /\ arming' = [arming EXCEPT ![t] =
                 [armed |-> TRUE, tick |-> timers[t].start,
                  interval |-> timers[t].interval,
                  elapsed |-> U32(mock_time - timers[t].start),
                  fired |-> 0,
                  rearmed |-> arming[t].armed /\ arming[t].fired > 0,
                  expired |-> 0, clock |-> clockTime]]
    /\ ret' = VOID
    /\ ctx' = [ctx EXCEPT ![c] = Idle]
    /\ UNCHANGED <<monotonic, impl, status, clockTime, mock_time>>

\* (the evaluated flag is not tested)
OnceEvaluated_Unchecked(c, t) ==
    /\ status = "running"
    /\ ctx[c].pc = "idle"
    /\ \/ /\ AssertFails(clockTime # NULL)
          /\ Stop("aborted", "IsExpiredEvaluatedOnce", t)
       \/ /\ clockTime # NULL
          /\ ctx' = [ctx EXCEPT ![c] =
                        [pc |-> "Once_161", t |-> t, arg |-> 0]]
          /\ UNCHANGED <<monotonic, impl, status, clockTime, mock_time, timers,
                         call, ret, arming>>

\* SoftwareTimer_IsExpiredEvaluatedOnce, lines 156-159: the two checks, then
\* if (timer->evaluated) return false;
OnceEvaluated(c, t) ==
    /\ status = "running"
    /\ ctx[c].pc = "idle"
    /\ \/ /\ AssertFails(clockTime # NULL)
          /\ Stop("aborted", "IsExpiredEvaluatedOnce", t)
       \/ /\ clockTime # NULL
          /\ timers[t].evaluated
          /\ call' = [op |-> "IsExpiredEvaluatedOnce", t |-> t,
                      now |-> 0, arg |-> 0]
          /\ ret' = Bool(FALSE)
          /\ UNCHANGED <<ctx, monotonic, impl, status, clockTime, mock_time, timers,
                         arming>>
       \/ /\ clockTime # NULL
          /\ ~timers[t].evaluated
          /\ ctx' = [ctx EXCEPT ![c] =
                        [pc |-> "Once_161", t |-> t, arg |-> 0]]
          /\ UNCHANGED <<monotonic, impl, status, clockTime, mock_time, timers,
                         call, ret, arming>>

\* SoftwareTimer_IsExpiredEvaluatedOnce, line 161 (and 165):
\* if (clockTime() - timer->start >= timer->interval) ... return false;
\* A call that finds the timer expired is going to return true: the history
\* counts it for the arming it was decided on.
OnceExpired(c) ==
    /\ status = "running"
    /\ ctx[c].pc = "Once_161"
    /\ LET t == ctx[c].t
           now == ClockValue(clockTime)
       IN  IF SoftwareTimer_IsExpired(timers[t], now)
           THEN /\ ctx' = [ctx EXCEPT ![c].pc = "Once_162"]
                /\ arming' = [arming EXCEPT ![t].fired =
                      IF arming[t].armed THEN Min(@ + 1, 2) ELSE @]
                /\ UNCHANGED <<call, ret>>
           ELSE /\ ctx' = [ctx EXCEPT ![c] = Idle]
                /\ call' = [op |-> "IsExpiredEvaluatedOnce", t |-> t,
                            now |-> now, arg |-> 0]
                /\ ret' = Bool(FALSE)
                /\ UNCHANGED arming
    /\ UNCHANGED <<monotonic, impl, status, clockTime, mock_time, timers>>

\* (the flag is tested again before it is written, and the call returns
\* false when another call has set it meanwhile)
OnceLatch_Recheck(c) ==
    /\ status = "running"
    /\ ctx[c].pc = "Once_162"
    /\ timers' = [timers EXCEPT ![ctx[c].t].evaluated = TRUE]
    /\ call' = [op |-> "IsExpiredEvaluatedOnce", t |-> ctx[c].t,
                now |-> 0, arg |-> 0]
    /\ ret' = Bool(~timers[ctx[c].t].evaluated)
    /\ ctx' = [ctx EXCEPT ![c] = Idle]
    /\ UNCHANGED <<monotonic, impl, status, clockTime, mock_time, arming>>

\* SoftwareTimer_IsExpiredEvaluatedOnce, lines 162-163:
\* timer->evaluated = true; return true;
OnceLatch(c) ==
    /\ status = "running"
    /\ ctx[c].pc = "Once_162"
    /\ timers' = [timers EXCEPT ![ctx[c].t].evaluated = TRUE]
    /\ call' = [op |-> "IsExpiredEvaluatedOnce", t |-> ctx[c].t,
                now |-> 0, arg |-> 0]
    /\ ret' = Bool(TRUE)
    /\ ctx' = [ctx EXCEPT ![c] = Idle]
    /\ UNCHANGED <<monotonic, impl, status, clockTime, mock_time, arming>>

\* SoftwareTimer_IsExpired / SoftwareTimer_Remaining called by a context
\* that is in no other call: the fields are read in the one expression of
\* line 111 / line 132, taken as one access.
IsExpiredBy(c, t) ==
    /\ ctx[c].pc = "idle"
    /\ CallIsExpired(t)

RemainingBy(c, t) ==
    /\ ctx[c].pc = "idle"
    /\ CallRemaining(t)

\* advance_time(1) while the clock is below MaxConcTime.
TickConc ==
    /\ mock_time < MaxConcTime
    /\ advance_time(1)

NextConc ==
    \/ \E clock \in Clocks \cup {NULL} : CallInit(clock) /\ UNCHANGED sibling
    \/ \E c \in Contexts, t \in DOMAIN timers, interval \in ConcIntervals :
          SetStart(c, t, interval) /\ UNCHANGED sibling
    \/ \E c \in Contexts : SetInterval(c) /\ UNCHANGED sibling
    \/ \E c \in Contexts : SetEvaluated(c) /\ UNCHANGED sibling
    \/ \E c \in Contexts, t \in DOMAIN timers : OnceEvaluated(c, t) /\ UNCHANGED sibling
    \/ \E c \in Contexts : OnceExpired(c) /\ UNCHANGED sibling
    \/ \E c \in Contexts : OnceLatch(c) /\ UNCHANGED sibling
    \/ \E c \in Contexts, t \in DOMAIN timers : IsExpiredBy(c, t) /\ UNCHANGED sibling
    \/ \E c \in Contexts, t \in DOMAIN timers : RemainingBy(c, t) /\ UNCHANGED sibling
    \/ TickConc /\ UNCHANGED sibling

SpecConc == InitConc /\ [][NextConc]_vars

\* ------------------------------------- a program with two clock callbacks

\* Last value of either clock and the intervals of such a program.
MaxClocksTime == 3
ClocksIntervals == {1, 2}

\* Time passes: CLOCK_MONOTONIC is ms milliseconds further on.
clock_gettime(ms) ==
    /\ status = "running"
    /\ monotonic' = U32(monotonic + ms)
    /\ call' = [op |-> "clock_gettime", t |-> NoTimer, now |-> 0, arg |-> 0]
    /\ ret' = VOID
    /\ arming' = [t \in DOMAIN arming |->
          IF arming[t].armed /\ arming[t].clock = "millis"
          THEN [arming[t] EXCEPT !.elapsed = Min(@ + ms, Modulus)]
          ELSE arming[t]]
    /\ UNCHANGED <<ctx, impl, status, clockTime, mock_time, timers>>

\* The program is linked against software_timer.c, has one timer object, a
\* zero-initialised static, and both clocks read 0.
InitClocks ==
    /\ impl = "software_timer"
    /\ status = "running"
    /\ clockTime = NULL
    /\ mock_time = 0
    /\ monotonic = 0
    /\ timers = [t \in MainTimers |->
                    [start |-> 0, interval |-> 0, evaluated |-> FALSE]]
    /\ call = [op |-> "start", t |-> NoTimer, now |-> 0, arg |-> 0]
    /\ ret = VOID
    /\ arming = [t \in DOMAIN timers |-> Unarmed]
    /\ ctx = [c \in Contexts |-> Idle]
    /\ sibling = SiblingStart(timers)

\* advance_time(1) while the mock clock is below MaxClocksTime.
TickMock ==
    /\ mock_time < MaxClocksTime
    /\ advance_time(1)

\* One more millisecond while CLOCK_MONOTONIC is below MaxClocksTime.
TickMonotonic ==
    /\ monotonic < MaxClocksTime
    /\ clock_gettime(1)

NextClocks ==
    \/ \E clock \in ProgramClocks \cup {NULL} : CallInit(clock) /\ UNCHANGED sibling
    \/ \E t \in DOMAIN timers, interval \in ClocksIntervals :
          CallSet(t, interval) /\ UNCHANGED sibling
    \/ \E t \in DOMAIN timers : CallIsExpired(t) /\ UNCHANGED sibling
    \/ \E t \in DOMAIN timers : CallRemaining(t) /\ UNCHANGED sibling
    \/ \E t \in DOMAIN timers : CallIsExpiredEvaluatedOnce(t) /\ UNCHANGED sibling
    \/ TickMock /\ UNCHANGED sibling
    \/ TickMonotonic /\ UNCHANGED sibling

SpecClocks == InitClocks /\ [][NextClocks]_vars

\* --------------------------------- the two sibling libraries side by side

\* The program linked against software_timer.c (the state variables) and
\* the same program linked against timer.c (sibling) make the same calls
\* with the same arguments and read the same tick source.  A call that
\* software_timer.c stops on an assertion is a call whose behaviour timer.c
\* leaves undefined; the comparison ends there.

\* The timer objects of both programs are uninitialised memory with the
\* same content; the tick source has any value.
InitSiblings ==
    /\ impl = "software_timer"
    /\ status = "running"
    /\ clockTime = NULL
    /\ mock_time \in Word
    /\ monotonic = 0
    /\ timers \in [MainTimers -> SoftwareTimer]
    /\ call = [op |-> "start", t |-> NoTimer, now |-> 0, arg |-> 0]
    /\ ret = VOID
    /\ arming = [t \in DOMAIN timers |-> Unarmed]
    /\ ctx = [c \in Contexts |-> Idle]
    /\ sibling = SiblingStart(timers)

\* The sibling program after the call, if the call was a defined one.
SiblingAfter(new) ==
    sibling' = IF status' = "running" THEN new ELSE sibling

\* SoftwareTimer_Init(clock) beside Timer_Init(clock):  clockTime = clock;
BothInit(clock) ==
    /\ CallInit(clock)
    /\ SiblingAfter([sibling EXCEPT !.clockTime = clock, !.ret = VOID])

\* SoftwareTimer_Set(t, interval) beside Timer_Set(t, interval).
BothSet(t, interval) ==
    /\ CallSet(t, interval)
    /\ SiblingAfter([sibling EXCEPT
          !.timers[t] = Timer_Set(@, ClockValue(sibling.clockTime), interval),
          !.ret = VOID])

\* SoftwareTimer_IsExpired(t) beside Timer_IsExpired(t).
BothIsExpired(t) ==
    /\ CallIsExpired(t)
    /\ SiblingAfter([sibling EXCEPT
          !.ret = Bool(Timer_IsExpired(sibling.timers[t],
                                       ClockValue(sibling.clockTime)))])

\* SoftwareTimer_Remaining(t) beside Timer_Remaining(t).
BothRemaining(t) ==
    /\ CallRemaining(t)
    /\ SiblingAfter([sibling EXCEPT
          !.ret = Uint32(Timer_Remaining(sibling.timers[t],
                                         ClockValue(sibling.clockTime)))])

NextSiblings ==
    \/ \E clock \in Clocks \cup {NULL} : BothInit(clock)
    \/ \E t \in TimerArgs, interval \in Word : BothSet(t, interval)
    \/ \E t \in TimerArgs : BothIsExpired(t)
    \/ \E t \in TimerArgs : BothRemaining(t)
    \/ \E ticks \in 1 .. MaxAdvance :
          advance_time(ticks) /\ UNCHANGED sibling

SpecSiblings == InitSiblings /\ [][NextSiblings]_vars

\* ------------------------------------------- a program that arms and polls

\* The program binds the clock, arms its timer once and then polls it in a
\* loop, as main() of src/example/src/main.c and the tests do, while the
\* clock advances one tick per iteration: IsExpired, Remaining, (linked
\* against software_timer.c) IsExpiredEvaluatedOnce, advance_time(1).  The
\* position in the iteration is the most recent call.  The timer object is
\* uninitialised memory before the Set.
InitLive ==
    /\ impl \in Impls
    /\ status = "running"
    /\ clockTime = NULL
    /\ mock_time \in Word
    /\ monotonic = 0
    /\ timers \in [MainTimers -> SoftwareTimer]
    /\ call = [op |-> "start", t |-> NoTimer, now |-> 0, arg |-> 0]
    /\ ret = VOID
    /\ arming = [t \in DOMAIN timers |-> Unarmed]
    /\ ctx = [c \in Contexts |-> Idle]
    /\ sibling = SiblingStart([t \in DOMAIN timers |-> Zeroed])

\* SoftwareTimer_Init(millis); once, before anything else.
Setup(clock) ==
    /\ clockTime = NULL
    /\ CallInit(clock)
    /\ UNCHANGED sibling

\* SoftwareTimer_Set(&myTimer, interval); the timer is armed once and not
\* armed again.
Arm(t, interval) ==
    /\ clockTime # NULL
    /\ ~arming[t].armed
    /\ CallSet(t, interval)
    /\ UNCHANGED sibling

\* The polls of one iteration, in their order.
LoopIsExpired(t) ==
    /\ arming[t].armed
    /\ call.op \in {"Set", "advance_time"}
    /\ CallIsExpired(t)
    /\ UNCHANGED sibling

LoopRemaining(t) ==
    /\ arming[t].armed
    /\ call.op = "IsExpired"
    /\ CallRemaining(t)
    /\ UNCHANGED sibling

LoopOnce(t) ==
    /\ arming[t].armed
    /\ call.op = "Remaining"
    /\ CallIsExpiredEvaluatedOnce(t)
    /\ UNCHANGED sibling

\* The last poll of an iteration in the linked library.
LastPoll == IF impl = "timer" THEN "Remaining" ELSE "IsExpiredEvaluatedOnce"

\* advance_time(1): at the end of an iteration, or at any moment while no
\* timer is armed.
LoopTick ==
    /\ \/ \A t \in DOMAIN timers : ~arming[t].armed
       \/ call.op = LastPoll
    /\ advance_time(1)
    /\ UNCHANGED sibling

\* One step of the polling loop.
Loop ==
    \/ \E t \in DOMAIN timers : LoopIsExpired(t)
    \/ \E t \in DOMAIN timers : LoopRemaining(t)
    \/ \E t \in DOMAIN timers : LoopOnce(t)
    \/ LoopTick

NextLive ==
    \/ \E clock \in Clocks : Setup(clock)
    \/ \E t \in DOMAIN timers, interval \in Word : Arm(t, interval)
    \/ \E t \in DOMAIN timers : LoopIsExpired(t)
    \/ \E t \in DOMAIN timers : LoopRemaining(t)
    \/ \E t \in DOMAIN timers : LoopOnce(t)
    \/ LoopTick

\* The loop is a while (1) of a single thread and the clock keeps advancing:
\* a loop step that stays possible is taken.
SpecLive == InitLive /\ [][NextLive]_vars /\ WF_vars(Loop)

\* ======================================================================

\* Properties
\* ======================================================================

\* The call op has returned (the program did not stop in it).
Returned(op) ==
    status = "running" /\ call.op = op /\ call.t \in DOMAIN timers \cup {NoTimer}

\* The number of ticks e in 0 .. Modulus-1 with start + e = now modulo
\* Modulus: the elapsed time the library is meant to compute, stated without
\* the subtraction.
ElapsedMod(start, now) == CHOOSE e \in Word : U32(start + e) = now

\* The clock has wrapped since timer t was armed: it reads less than it did
\* at the Set although less than one period has passed.
Wrapped(t) ==
    /\ arming[t].armed
    /\ arming[t].elapsed < Modulus
    /\ mock_time < arming[t].tick

\* C1: IsExpired returns true iff ((now - start) mod 2^32) >= interval, for
\* every timer content and clock value; for a timer armed less than one
\* clock period ago this is "the ticks advanced since the Set are at least
\* the interval" (false at interval-1 ticks, true at interval ticks), also
\* when the clock wrapped in between.
C1_IsExpiredModular ==
    Returned("IsExpired") =>
        LET tm == timers[call.t]
            a  == arming[call.t]
        IN  /\ ret.bool = (ElapsedMod(tm.start, call.now) >= tm.interval)
            /\ (a.armed /\ clockTime # NULL /\ a.elapsed < Modulus)
                  => ret.bool = (a.elapsed >= a.interval)

\* An IsExpired call returned true at exactly interval elapsed ticks, the
\* clock having wrapped since the Set.
C1_Witness ==
    /\ Returned("IsExpired")
    /\ Wrapped(call.t)
    /\ arming[call.t].interval > 0
    /\ arming[call.t].elapsed = arming[call.t].interval
    /\ ret.bool = TRUE

\* C2 as stated, of SoftwareTimer_Remaining: armed at clock value 2^32 - k,
\* after k + m ticks in total (the boundary crossed) with m < interval,
\* Remaining = interval - (k + m).
C2_Original ==
    (Returned("Remaining") /\ impl = "software_timer") =>
        LET a == arming[call.t]
            k == Modulus - a.tick
            m == a.elapsed - k
        IN  (/\ a.armed /\ clockTime # NULL
             /\ a.tick >= 1
             /\ a.elapsed < Modulus
             /\ m >= 0
             /\ m < a.interval)
            => ret.u32 = a.interval - (k + m)

\* C2 amended: the same with k + m <= interval (the total advance does not
\* exceed the interval): Remaining = interval - (k + m) exactly as if the
\* clock had not wrapped.
C2_WraparoundRemaining ==
    Returned("Remaining") =>
        LET a == arming[call.t]
            k == Modulus - a.tick
            m == a.elapsed - k
        IN  (/\ a.armed /\ clockTime # NULL
             /\ a.tick >= 1
             /\ a.elapsed < Modulus
             /\ m >= 0
             /\ k + m <= a.interval)
            => ret.u32 = a.interval - (k + m)

\* A Remaining call returned a positive value after the clock crossed the
\* boundary by m > 0 ticks.
C2_Witness ==
    /\ Returned("Remaining")
    /\ Wrapped(call.t)
    /\ mock_time > 0
    /\ arming[call.t].elapsed < arming[call.t].interval
    /\ ret.u32 = arming[call.t].interval - arming[call.t].elapsed
    /\ ret.u32 > 0

\* C3: Remaining returns 0 when elapsed = (now - start) mod 2^32 >= interval
\* and interval - elapsed otherwise (an integer difference that is never
\* negative), so the result is in 0 .. interval.
C3_RemainingValue ==
    Returned("Remaining") =>
        LET tm == timers[call.t]
            e  == ElapsedMod(tm.start, call.now)
        IN  /\ ret.u32 = (IF e >= tm.interval THEN 0 ELSE tm.interval - e)
            /\ ret.u32 \in 0 .. tm.interval

\* A Remaining call on an armed, expired timer with a non-zero interval
\* returned 0 where the bare subtraction interval - elapsed would have
\* underflowed.
C3_Witness ==
    /\ Returned("Remaining")
    /\ clockTime # NULL
    /\ arming[call.t].armed
    /\ timers[call.t].interval > 0
    /\ ElapsedMod(timers[call.t].start, call.now) > timers[call.t].interval
    /\ ret.u32 = 0

\* The step is a completed call op on timer t.  (Every call writes the call
\* record; a step that leaves every variable unchanged is not constrained by
\* an action property.)
Returns(op, t) == status' = "running" /\ call'.op = op /\ call'.t = t

\* The clock value read by the call of this step shows timer t (as it was
\* before the call) expired.
Observes(t) == U32(call'.now - timers[t].start) >= timers[t].interval

\* C4: IsExpiredEvaluatedOnce is edge-triggered: between one Set on a timer
\* and the next, a call returns true iff it observes elapsed >= interval and
\* no earlier call since the Set has returned true; so at most one call per
\* arming returns true, it is the first that observes expiry, and every
\* call before it and after it returns false.
C4_OneShotEdge ==
    /\ [][\A t \in DOMAIN timers :
            (Returns("IsExpiredEvaluatedOnce", t) /\ arming[t].armed)
            => (ret'.bool = (Observes(t) /\ arming[t].fired = 0))]_vars
    /\ [](\A t \in DOMAIN timers : arming[t].armed => arming[t].fired <= 1)

\* An IsExpiredEvaluatedOnce call returned false on a still expired timer
\* after an earlier call of the same arming had returned true.
C4_Witness ==
    /\ Returned("IsExpiredEvaluatedOnce")
    /\ clockTime # NULL
    /\ arming[call.t].armed
    /\ arming[call.t].fired = 1
    /\ arming[call.t].elapsed >= arming[call.t].interval
    /\ arming[call.t].elapsed < Modulus
    /\ ret.bool = FALSE

\* C5: Set re-enables the one-shot signal: a Set on a timer whose one-shot
\* query has returned true (Consumed) leaves it Armed (evaluated = false),
\* and the first IsExpiredEvaluatedOnce call of the new arming that observes
\* the new interval elapsed returns true again, however many armings were
\* consumed before.
C5_SetRearmsOneShot ==
    /\ [][\A t \in DOMAIN timers :
            (/\ impl = "software_timer"
             /\ Returns("Set", t)
             /\ arming[t].armed /\ arming[t].fired >= 1)
            => (timers'[t].evaluated = FALSE /\ arming'[t].rearmed)]_vars
    /\ [][\A t \in DOMAIN timers :
            (/\ Returns("IsExpiredEvaluatedOnce", t)
             /\ arming[t].armed /\ arming[t].rearmed
             /\ arming[t].fired = 0
             /\ Observes(t))
            => ret'.bool = TRUE]_vars

\* An IsExpiredEvaluatedOnce call returned true for an arming that followed
\* a consumed one.
C5_Witness ==
    /\ Returned("IsExpiredEvaluatedOnce")
    /\ clockTime # NULL
    /\ arming[call.t].armed
    /\ arming[call.t].rearmed
    /\ arming[call.t].interval > 0
    /\ arming[call.t].fired = 1
    /\ ret.bool = TRUE

\* C6: round-trip arming: with no clock advance since Set(t, i), a Remaining
\* call returns i and an IsExpired call returns (i = 0), for every interval
\* i and every clock value.
C6_RoundTripArming ==
    \A t \in DOMAIN timers :
        (/\ status = "running" /\ clockTime # NULL /\ call.t = t
         /\ arming[t].armed /\ arming[t].elapsed = 0)
        => /\ call.op = "Remaining" => ret.u32 = arming[t].interval
           /\ call.op = "IsExpired" => ret.bool = (arming[t].interval = 0)

\* A Remaining call returned the largest interval right after the Set, at a
\* non-zero clock value.
C6_Witness ==
    /\ Returned("Remaining")
    /\ clockTime # NULL
    /\ arming[call.t].armed
    /\ arming[call.t].elapsed = 0
    /\ arming[call.t].interval = Modulus - 1
    /\ mock_time > 0
    /\ ret.u32 = Modulus - 1

\* C7: expiry consistency: for every timer content and every clock value,
\* IsExpired is true iff Remaining is 0 at the same clock value; in
\* particular every returned value agrees with the other query's.
C7_ExpiryConsistency ==
    /\ \A t \in DOMAIN timers : \A now \in Word :
          IsExpiredOf(timers[t], now) <=> (RemainingOf(timers[t], now) = 0)
    /\ Returned("IsExpired")
          => (ret.bool <=> (RemainingOf(timers[call.t], call.now) = 0))
    /\ Returned("Remaining")
          => ((ret.u32 = 0) <=> IsExpiredOf(timers[call.t], call.now))

\* A Remaining call returned 0 at exactly interval elapsed ticks, where
\* IsExpired is true.
C7_Witness ==
    /\ Returned("Remaining")
    /\ clockTime # NULL
    /\ arming[call.t].armed
    /\ arming[call.t].interval > 0
    /\ arming[call.t].elapsed = arming[call.t].interval
    /\ ret.u32 = 0
    /\ IsExpiredOf(timers[call.t], call.now)

\* C8: Set(timer, interval) leaves the timer with start = the clock value
\* read during the call, interval = the argument and evaluated = false
\* whatever it held before; these stay in place until the next Set, so every
\* later IsExpired and Remaining result is a function of the re-arm tick,
\* the new interval and the clock value read, not of any earlier arming.
\* (Timer_Set of timer.c writes start and interval alike but not evaluated.)
C8_SetOverwrites ==
    /\ Returned("Set") =>
          /\ timers[call.t].start = call.now
          /\ timers[call.t].interval = call.arg
          /\ impl = "software_timer" => timers[call.t].evaluated = FALSE
    /\ \A t \in DOMAIN timers : arming[t].armed =>
          /\ timers[t].start = arming[t].tick
          /\ timers[t].interval = arming[t].interval
    /\ (Returned("IsExpired") /\ arming[call.t].armed) =>
          ret.bool = (ElapsedMod(arming[call.t].tick, call.now)
                    >= arming[call.t].interval)
    /\ (Returned("Remaining") /\ arming[call.t].armed) =>
          LET e == ElapsedMod(arming[call.t].tick, call.now)
          IN  ret.u32 = (IF e >= arming[call.t].interval THEN 0
                     ELSE arming[call.t].interval - e)

\* A Set has just re-armed a Consumed timer with a different interval at a
\* different tick.
C8_Witness ==
    /\ Returned("Set")
    /\ impl = "software_timer"
    /\ arming[call.t].rearmed
    /\ call.arg = Modulus - 1
    /\ call.now > 0
    /\ timers[call.t] =
          [start |-> call.now, interval |-> call.arg, evaluated |-> FALSE]

C10_MonotoneCountdown ==
    [][\A t \in DOMAIN timers :
          (/\ status' = "running"
           /\ clockTime # NULL /\ clockTime' # NULL
           /\ arming[t].armed /\ arming'[t].armed
           /\ ~(call'.op = "Set" /\ call'.t = t)
           /\ arming'[t].elapsed < Modulus)
          => /\ RemainingOf(timers'[t], mock_time')
                   <= RemainingOf(timers[t], mock_time)
             /\ RemainingOf(timers[t], mock_time) = 0
                   => RemainingOf(timers'[t], mock_time') = 0]_vars

\* A Remaining call returned 0 on a timer that expired earlier in the same
\* arming, the clock having wrapped since the Set.
C10_Witness ==
    /\ Returned("Remaining")
    /\ clockTime # NULL
    /\ Wrapped(call.t)
    /\ arming[call.t].interval > 0
    /\ arming[call.t].elapsed > arming[call.t].interval
    /\ ret.u32 = 0

\* C11: IsExpired and Remaining are read-only: a call of either leaves
\* start, interval and evaluated of the queried timer, every other timer and
\* the clock binding unchanged; so the one-shot query answers after the call
\* as it would have answered before it.
C11_ReadOnlyQueries ==
    [][\A t \in DOMAIN timers :
          (Returns("IsExpired", t) \/ Returns("Remaining", t))
          => /\ timers' = timers
             /\ clockTime' = clockTime
             /\ SoftwareTimer_IsExpiredEvaluatedOnce(timers'[t], call'.now)
                   = SoftwareTimer_IsExpiredEvaluatedOnce(timers[t],
                                                          call'.now)]_vars

\* An IsExpired call returned true on a timer whose one-shot signal is still
\* pending, in a program where another timer is armed as well.
C11_Witness ==
    /\ Returned("IsExpired")
    /\ impl = "software_timer"
    /\ clockTime # NULL
    /\ ret.bool = TRUE
    /\ arming[call.t].armed
    /\ arming[call.t].interval > 0
    /\ arming[call.t].fired = 0
    /\ timers[call.t].evaluated = FALSE
    /\ \E u \in DOMAIN timers \ {call.t} : arming[u].armed

\* C12: IsExpiredEvaluatedOnce never changes start or interval; it changes
\* evaluated, from false to true, exactly in the call that returns true;
\* a call that returns false leaves the whole timer record unchanged.
C12_OneShotFrame ==
    [][\A t \in DOMAIN timers :
          Returns("IsExpiredEvaluatedOnce", t)
          => /\ timers'[t].start = timers[t].start
             /\ timers'[t].interval = timers[t].interval
             /\ (timers'[t].evaluated # timers[t].evaluated)
                   <=> (ret'.bool = TRUE)
             /\ ret'.bool = TRUE
                   => (timers[t].evaluated = FALSE
                       /\ timers'[t].evaluated = TRUE)
             /\ ret'.bool = FALSE => timers'[t] = timers[t]]_vars

\* An IsExpiredEvaluatedOnce call returned false on an armed timer that has
\* not expired yet, and left its evaluated flag clear.
C12_Witness ==
    /\ Returned("IsExpiredEvaluatedOnce")
    /\ clockTime # NULL
    /\ ret.bool = FALSE
    /\ arming[call.t].armed
    /\ arming[call.t].elapsed > 0
    /\ arming[call.t].elapsed < arming[call.t].interval
    /\ timers[call.t].evaluated = FALSE

\* The operations on a timer object.
TimerOps == {"Set", "IsExpired", "Remaining", "IsExpiredEvaluatedOnce"}

\* C13: independence: an operation on one timer writes no field of another
\* timer, and what it returns and stores is decided by that timer's own
\* record and the clock alone; so the results observed for a timer are those
\* of its own history (the tick and interval of its last Set, the ticks since,
\* its own one-shot returns), whatever was done to other timers in between.
C13_Independence ==
    /\ [][\A t \in DOMAIN timers : \A op \in TimerOps :
            Returns(op, t)
            => /\ \A u \in DOMAIN timers \ {t} : timers'[u] = timers[u]
               /\ op = "Set"
                     => timers'[t] = SetOf(timers[t], call'.now, call'.arg)
               /\ op = "IsExpired"
                     => ret'.bool = IsExpiredOf(timers[t], call'.now)
               /\ op = "Remaining"
                     => ret'.u32 = RemainingOf(timers[t], call'.now)
               /\ op = "IsExpiredEvaluatedOnce"
                     => /\ ret'.bool = SoftwareTimer_IsExpiredEvaluatedOnce(
                                           timers[t], call'.now).ret
                        /\ timers'[t] = SoftwareTimer_IsExpiredEvaluatedOnce(
                                           timers[t], call'.now).timer]_vars
    /\ [](\A t \in DOMAIN timers :
            (arming[t].armed /\ clockTime # NULL /\ status = "running"
             /\ arming[t].elapsed < Modulus)
            => /\ timers[t].start = arming[t].tick
               /\ timers[t].interval = arming[t].interval
               /\ IsExpiredOf(timers[t], mock_time)
                     = (arming[t].elapsed >= arming[t].interval)
               /\ RemainingOf(timers[t], mock_time)
                     = (IF arming[t].elapsed >= arming[t].interval THEN 0
                        ELSE arming[t].interval - arming[t].elapsed)
               /\ impl = "software_timer"
                     => timers[t].evaluated = (arming[t].fired > 0))

\* An IsExpired call returned false on a timer that is still running, after
\* another timer, armed with a shorter interval, expired and gave its
\* one-shot signal.
C13_Witness ==
    /\ Returned("IsExpired")
    /\ clockTime # NULL
    /\ ret.bool = FALSE
    /\ arming[call.t].armed
    /\ arming[call.t].elapsed > 0
    /\ \E u \in DOMAIN timers \ {call.t} :
          /\ arming[u].armed
          /\ arming[u].interval < arming[call.t].interval
          /\ arming[u].fired = 1
          /\ timers[u].evaluated = TRUE
          /\ timers[u].start # timers[call.t].start

\* C14: a timer armed with interval 0 expires immediately: from the Set on,
\* at every clock value (after a wrap and after any number of periods too),
\* IsExpired returns true and Remaining returns 0, and the first
\* IsExpiredEvaluatedOnce call returns true (a false return means an earlier
\* call of the arming returned true).
C14_ZeroInterval ==
    (/\ status = "running"
     /\ call.op \in TimerOps
     /\ call.t \in DOMAIN timers
     /\ clockTime # NULL
     /\ arming[call.t].armed
     /\ arming[call.t].interval = 0)
    => /\ call.op = "IsExpired" => ret.bool = TRUE
       /\ call.op = "Remaining" => ret.u32 = 0
       /\ call.op = "IsExpiredEvaluatedOnce"
             => /\ arming[call.t].fired = 1
                /\ ret.bool = FALSE => timers[call.t].evaluated = TRUE
       /\ IsExpiredOf(timers[call.t], mock_time) = TRUE
       /\ RemainingOf(timers[call.t], mock_time) = 0

\* The first IsExpiredEvaluatedOnce call on a timer armed with interval 0
\* returned true with no tick elapsed since the Set.
C14_Witness ==
    /\ Returned("IsExpiredEvaluatedOnce")
    /\ clockTime # NULL
    /\ arming[call.t].armed
    /\ arming[call.t].interval = 0
    /\ arming[call.t].elapsed = 0
    /\ arming[call.t].fired = 1
    /\ ret.bool = TRUE

\* UINT32_MAX and 2^31 of the scaled word.
MaxInterval == Modulus - 1
HalfRange == Modulus \div 2

\* C15: large intervals are unsigned: a timer armed with the largest
\* interval (2^32-1) is not expired for any elapsed tick count below it,
\* Remaining counting down to 1 one tick before, and is expired at exactly
\* that many ticks; a timer armed with half the range (2^31) is not expired
\* one tick before and is expired at exactly half the range.
C15_LargeIntervals ==
    (/\ status = "running"
     /\ call.op \in {"IsExpired", "Remaining"}
     /\ call.t \in DOMAIN timers
     /\ clockTime # NULL
     /\ arming[call.t].armed
     /\ arming[call.t].elapsed < Modulus)
    => LET a == arming[call.t]
       IN  /\ (a.interval = MaxInterval /\ a.elapsed < MaxInterval)
                 => /\ call.op = "IsExpired" => ret.bool = FALSE
                    /\ call.op = "Remaining"
                          => ret.u32 = MaxInterval - a.elapsed
           /\ (a.interval = MaxInterval /\ a.elapsed = MaxInterval)
                 => /\ call.op = "IsExpired" => ret.bool = TRUE
                    /\ call.op = "Remaining" => ret.u32 = 0
           /\ (a.interval = HalfRange /\ a.elapsed = HalfRange - 1)
                 => /\ call.op = "IsExpired" => ret.bool = FALSE
                    /\ call.op = "Remaining" => ret.u32 = 1
           /\ (a.interval = HalfRange /\ a.elapsed = HalfRange)
                 => /\ call.op = "IsExpired" => ret.bool = TRUE
                    /\ call.op = "Remaining" => ret.u32 = 0

\* A Remaining call returned 1 on a timer armed with the largest interval,
\* one tick before it expires.
C15_Witness ==
    /\ Returned("Remaining")
    /\ clockTime # NULL
    /\ arming[call.t].armed
    /\ arming[call.t].interval = MaxInterval
    /\ arming[call.t].elapsed = MaxInterval - 1
    /\ ret.u32 = 1

\* C18: for a timer that has been Set, evaluated is true iff some
\* IsExpiredEvaluatedOnce call on it has returned true since its most recent
\* Set (software_timer.c; in every reachable state, stopped ones included).
C18_EvaluatedMeansFired ==
    \A t \in DOMAIN timers :
        (impl = "software_timer" /\ arming[t].armed)
        => (timers[t].evaluated = TRUE <=> arming[t].fired >= 1)

\* A timer armed again after a consumed arming has given the one-shot
\* signal of the new arming, and a later level query has run on it.
C18_Witness ==
    /\ Returned("IsExpired")
    /\ impl = "software_timer"
    /\ arming[call.t].armed
    /\ arming[call.t].rearmed
    /\ arming[call.t].fired = 1
    /\ timers[call.t].evaluated = TRUE

\* C16: SoftwareTimer_Init with a null clock fails with a precondition
\* violation (the default assert aborts the program): no Init call of
\* software_timer.c returns with the binding null, the aborting call writes
\* nothing, and a binding once stored is never replaced by NULL.
C16_InitNullViolation ==
    /\ [][(impl = "software_timer" /\ call'.op = "Init"
           /\ status' = "aborted")
          => /\ status = "running"
             /\ clockTime' = clockTime
             /\ timers' = timers]_vars
    /\ []((impl = "software_timer" /\ status = "running"
           /\ call.op = "Init")
          => clockTime # NULL)
    /\ [][(impl = "software_timer" /\ clockTime # NULL)
          => clockTime' = clockTime]_vars

\* SoftwareTimer_Init(NULL) has aborted a program that had bound a clock and
\* armed a timer before; the binding is still the clock.
C16_Witness ==
    /\ impl = "software_timer"
    /\ status = "aborted"
    /\ call.op = "Init"
    /\ clockTime # NULL
    /\ \E t \in DOMAIN timers : arming[t].armed

\* C17: in software_timer.c each of Set, IsExpired, Remaining and
\* IsExpiredEvaluatedOnce fails with a precondition violation exactly when
\* it is called with the clock binding still null or with a null timer; the
\* violation stops the program with no timer field, no binding and no
\* clock state written and no clock value taken.
C17_PreconditionViolations ==
    [][\A op \in TimerOps :
          (impl = "software_timer" /\ status = "running" /\ call'.op = op)
          => /\ (clockTime = NULL \/ call'.t = NULL)
                   <=> status' = "aborted"
             /\ status' = "aborted"
                   => /\ timers' = timers
                      /\ clockTime' = clockTime
                      /\ mock_time' = mock_time
                      /\ arming' = arming
                      /\ call'.now = 0
                      /\ ret' = VOID]_vars

\* IsExpiredEvaluatedOnce(NULL) has aborted a program whose clock is bound
\* and whose timer is armed and not yet consumed.
C17_Witness ==
    /\ impl = "software_timer"
    /\ status = "aborted"
    /\ call.op = "IsExpiredEvaluatedOnce"
    /\ call.t = NULL
    /\ clockTime # NULL
    /\ \E t \in DOMAIN timers :
          arming[t].armed /\ timers[t].evaluated = FALSE

\* A Set before any Init has aborted the program, the timer object left as
\* it was.
C17_WitnessNoInit ==
    /\ impl = "software_timer"
    /\ status = "aborted"
    /\ call.op = "Set"
    /\ call.t \in DOMAIN timers
    /\ clockTime = NULL

\* Context c takes the step of its call that is at program point pc.
Leaves(c, pc) == ctx[c].pc = pc /\ ctx'[c].pc # pc

\* C19: without synchronisation two contexts calling IsExpiredEvaluatedOnce
\* on the same expired, armed timer can both return true.  A call that has
\* read evaluated = false and found the timer expired sets the flag and
\* returns true whatever the flag holds by then (it is not read again); and
\* a second true for one arming is decided only by a call whose read of the
\* flag came before the write of the call that decided the first: that call
\* is still before its write, or has written since.
C19_DuplicateOneShot ==
    /\ [][\A c \in Contexts :
            Leaves(c, "Once_162")
            => /\ status' = "running"
               /\ call'.op = "IsExpiredEvaluatedOnce"
               /\ ret'.bool = TRUE
               /\ timers'[ctx[c].t].evaluated = TRUE]_vars
    /\ [][\A t \in DOMAIN timers :
            (arming[t].fired = 1 /\ arming'[t].fired = 2)
            => \E c \in Contexts : \E d \in Contexts \ {c} :
                  /\ At(c, "Once_161", t)
                  /\ ctx'[c].pc = "Once_162"
                  /\ At(d, "Once_162", t) \/ timers[t].evaluated = TRUE]_vars

\* Both contexts have returned true from IsExpiredEvaluatedOnce for the same
\* arming of the timer, which had a positive interval.
C19_Witness ==
    /\ status = "running"
    /\ \A c \in Contexts : ctx[c].pc = "idle"
    /\ call.op = "IsExpiredEvaluatedOnce"
    /\ ret.bool = TRUE
    /\ \E t \in DOMAIN timers :
          /\ arming[t].armed
          /\ arming[t].interval > 0
          /\ arming[t].elapsed >= arming[t].interval
          /\ arming[t].fired = 2
          /\ timers[t].evaluated = TRUE

\* The arming of timer t is consumed although no IsExpiredEvaluatedOnce call
\* was decided on it, and no call is past the test of the flag.
Lost(t) ==
    /\ status = "running"
    /\ arming[t].armed
    /\ arming[t].fired = 0
    /\ timers[t].evaluated = TRUE
    /\ \A c \in Contexts : ctx[c].t = t => ctx[c].pc \notin {"Once_161", "Once_162"}

\* C20: a Set that runs between the expiry test and the evaluated = true
\* write of an IsExpiredEvaluatedOnce call in another context leaves its new
\* arming consumed: the pending write lands on the new arming, for which no
\* call was decided; from then on every IsExpiredEvaluatedOnce call on the
\* timer returns false and none is decided for that arming, until the
\* evaluated = false write of a next Set.
C20_LostOneShot ==
    /\ [][\A c \in Contexts : \A t \in DOMAIN timers :
            (At(c, "Once_162", t) /\ Leaves(c, "Once_162")
             /\ arming[t].armed /\ arming[t].fired = 0
             /\ \A d \in Contexts \ {c} : ctx[d].pc = "idle")
            => Lost(t)']_vars
    /\ [][\A t \in DOMAIN timers :
            Lost(t)
            => /\ arming'[t].fired = 0
               /\ Lost(t)' \/ status' # "running"
                     \/ \E c \in Contexts : Leaves(c, "Set_96")
               /\ (call' # call /\ call'.op = "IsExpiredEvaluatedOnce"
                   /\ status' = "running")
                     => ret'.bool = FALSE]_vars

\* An IsExpiredEvaluatedOnce call returned false on a timer whose arming,
\* with a positive interval, has expired and never gave its signal.
C20_Witness ==
    /\ call.op = "IsExpiredEvaluatedOnce"
    /\ ret.bool = FALSE
    /\ \A c \in Contexts : ctx[c].pc = "idle"
    /\ \E t \in DOMAIN timers :
          /\ Lost(t)
          /\ call.t = t
          /\ arming[t].interval > 0
          /\ arming[t].elapsed >= arming[t].interval

\* C21: Set updates the timer field by field, start, then interval, then
\* evaluated, each write a step of its own; a query of another context that
\* runs after the first write and before the second computes with the new
\* start and the interval of the arming before (the one the history holds),
\* so it can return what neither the old nor the new arming gives.
C21_TornSet ==
    /\ [][\A c \in Contexts :
            /\ (Leaves(c, "idle") /\ ctx'[c].pc = "Set_95")
                  => timers' = [timers EXCEPT
                                   ![ctx'[c].t].start = mock_time]
            /\ Leaves(c, "Set_95")
                  => /\ ctx'[c].pc = "Set_96"
                     /\ timers' = [timers EXCEPT
                                      ![ctx[c].t].interval = ctx[c].arg]
            /\ Leaves(c, "Set_96")
                  => /\ ctx'[c].pc = "idle"
                     /\ timers' = [timers EXCEPT
                                      ![ctx[c].t].evaluated = FALSE]]_vars
    /\ [][\A d \in Contexts : \A t \in DOMAIN timers :
            (/\ At(d, "Set_95", t) /\ ctx' = ctx
             /\ \A c \in Contexts \ {d} : ctx[c].pc = "idle"
             /\ arming[t].armed
             /\ call' # call \/ ret' # ret)
            => /\ timers[t].interval = arming[t].interval
               /\ Returns("IsExpired", t)
                     => ret'.bool = (U32(mock_time - timers[t].start)
                                        >= arming[t].interval)
               /\ Returns("Remaining", t)
                     => ret'.u32 =
                          (IF U32(mock_time - timers[t].start)
                                 >= arming[t].interval
                           THEN 0
                           ELSE arming[t].interval
                                  - U32(mock_time - timers[t].start))]_vars

\* While a Set of another context stands between its first and its second
\* write, an IsExpired call made at the current clock value has returned
\* false, although the arming before has expired and the arming being
\* written (interval 0) expires at once.
C21_Witness ==
    /\ Returned("IsExpired")
    /\ call.now = mock_time
    /\ ret.bool = FALSE
    /\ arming[call.t].armed
    /\ arming[call.t].elapsed < Modulus
    /\ arming[call.t].elapsed >= arming[call.t].interval
    /\ \E d \in Contexts :
          /\ At(d, "Set_95", call.t)
          /\ U32(mock_time - timers[call.t].start) >= ctx[d].arg

\* The content of a timer object whose memory is all bits set
\* (memset(&timer, 0xFF, sizeof(timer))).
AllBitsSet == [start |-> Modulus - 1, interval |-> Modulus - 1,
               evaluated |-> TRUE]

\* C22 as stated, of Timer_IsExpired (timer.c): a timer that was never Set
\* and whose memory is all bits set is inactive: IsExpired on it returns
\* false.
C22_Original ==
    (/\ Returned("IsExpired")
     /\ impl = "timer"
     /\ clockTime # NULL
     /\ ~arming[call.t].armed
     /\ timers[call.t] = AllBitsSet)
    => ret.bool = FALSE

\* C23 as stated, of Timer_IsExpired (timer.c): the timer is deactivated
\* when expiry is reported, so IsExpired does not return true again for the
\* same arming: at most one IsExpired call since a Set has returned true.
C23_Original ==
    (/\ Returned("IsExpired")
     /\ impl = "timer"
     /\ clockTime # NULL
     /\ arming[call.t].armed)
    => arming[call.t].expired <= 1

\* C24.  Calling Init again rebinds the clock for every timer: a later call
\* (Set, IsExpired, Remaining, IsExpiredEvaluatedOnce) computes with the tick
\* of the clock bound at that moment, whatever clock was bound when the
\* timer was armed; the binding is changed by Init only, and Init leaves
\* the stored start and interval of every timer as they are.
BoundTick == IF clockTime = "millis" THEN monotonic ELSE mock_time

C24_Rebinding ==
    /\ [][\A t \in DOMAIN timers, op \in TimerOps :
             Returns(op, t) =>
                /\ clockTime # NULL
                /\ call'.now = BoundTick
                /\ (op = "Set" => timers'[t].start = BoundTick)
                /\ (op = "IsExpired" =>
                      ret'.bool = (U32(BoundTick - timers[t].start)
                                      >= timers[t].interval))
                /\ (op = "IsExpiredEvaluatedOnce" =>
                      ret'.bool = (/\ ~timers[t].evaluated
                                   /\ U32(BoundTick - timers[t].start)
                                         >= timers[t].interval))
                /\ (op = "Remaining" =>
                      ret'.u32 =
                         (IF U32(BoundTick - timers[t].start)
                                >= timers[t].interval
                          THEN 0
                          ELSE U32(timers[t].start + timers[t].interval
                                      - BoundTick)))]_vars
    /\ [][clockTime' # clockTime =>
             call'.op = "Init"]_vars
    /\ [][call'.op = "Init" => timers' = timers]_vars

\* A timer armed under mock_clock_time is reported expired after the clock
\* was rebound to millis, while fewer ticks of mock_clock_time than its
\* interval have passed since the Set.
C24_Witness ==
    /\ Returned("IsExpired")
    /\ clockTime = "millis"
    /\ arming[call.t].armed
    /\ arming[call.t].clock = "mock_clock_time"
    /\ arming[call.t].elapsed < arming[call.t].interval
    /\ call.now = monotonic
    /\ monotonic # mock_time
    /\ ret.bool = TRUE

\* C25.  The sibling libraries agree on the level-triggered interface: after
\* every sequence of Init, Set, IsExpired, Remaining calls and clock
\* advances that both define, the two programs have the same clock binding
\* and equal start and interval in every timer, and each IsExpired and
\* Remaining call returned the same value in both; the states differ only in
\* evaluated, which SoftwareTimer_Set clears and Timer_Set leaves as it was
\* (no other call of the level-triggered interface writes it).
C25_Siblings ==
    /\ [](status = "running" =>
            /\ sibling.clockTime = clockTime
            /\ \A t \in DOMAIN timers :
                  /\ sibling.timers[t].start = timers[t].start
                  /\ sibling.timers[t].interval = timers[t].interval
            /\ (call.op \in {"IsExpired", "Remaining"} => sibling.ret = ret))
    /\ [][\A t \in DOMAIN timers :
             /\ (Returns("Set", t) =>
                   /\ ~timers'[t].evaluated
                   /\ sibling'.timers[t].evaluated
                         = sibling.timers[t].evaluated)
             /\ (status' = "running" /\ ~Returns("Set", t) =>
                   /\ timers'[t].evaluated = timers[t].evaluated
                   /\ sibling'.timers[t].evaluated
                         = sibling.timers[t].evaluated)]_vars

\* Both programs report a timer expired whose interval is over half the
\* word range and whose start lies after the current tick (the clock
\* wrapped since the Set), while their evaluated fields differ.
C25_Witness ==
    /\ Returned("IsExpired")
    /\ arming[call.t].armed
    /\ arming[call.t].interval >= HalfRange
    /\ call.now < timers[call.t].start
    /\ ret.bool = TRUE
    /\ sibling.ret = ret
    /\ sibling.timers[call.t].evaluated # timers[call.t].evaluated

\* C26.  The one-shot query never fires before the level-triggered one:
\* an IsExpiredEvaluatedOnce call that returns true is made at a clock
\* value at which IsExpired returns true for the same timer, and on a timer
\* whose evaluated flag is clear it returns exactly what IsExpired returns
\* at that clock value.  Stated for the function applied to the state the
\* call found, and for an IsExpired call made right after or right before
\* the one-shot call with no clock advance in between.
C26_OneShotWithinLevel ==
    /\ [][\A t \in DOMAIN timers :
             Returns("IsExpiredEvaluatedOnce", t) =>
                /\ (ret'.bool =>
                      SoftwareTimer_IsExpired(timers[t], call'.now))
                /\ (~timers[t].evaluated =>
                      ret'.bool
                        = SoftwareTimer_IsExpired(timers[t], call'.now))]_vars
    /\ [][\A t \in DOMAIN timers :
             (/\ Returned("IsExpiredEvaluatedOnce") /\ call.t = t
              /\ ret.bool
              /\ Returns("IsExpired", t) /\ call'.now = call.now)
             => ret'.bool]_vars
    /\ [][\A t \in DOMAIN timers :
             (/\ Returned("IsExpired") /\ call.t = t
              /\ Returns("IsExpiredEvaluatedOnce", t)
              /\ call'.now = call.now)
             => /\ (ret'.bool => ret.bool)
                /\ (~timers[t].evaluated => ret'.bool = ret.bool)]_vars

\* The one-shot query fired at the first tick at which an interval of at
\* least half the word range was over, and an IsExpired call right after
\* it returned true.
C26_Witness ==
    /\ Returned("IsExpired")
    /\ ret.bool = TRUE
    /\ clockTime # NULL
    /\ arming[call.t].armed
    /\ arming[call.t].fired = 1
    /\ arming[call.t].expired = 1
    /\ arming[call.t].interval >= HalfRange
    /\ arming[call.t].elapsed = arming[call.t].interval
    /\ timers[call.t].evaluated

\* C27.  Liveness of an armed timer that is polled while the clock advances
\* one tick at a time and that is not armed again: after a Set(t, interval)
\* an IsExpired(t) call eventually returns true, at exactly interval ticks
\* after the Set and at no poll before; a Remaining(t) call eventually
\* returns 0, at that same tick, having returned interval minus the ticks
\* passed before; and when IsExpiredEvaluatedOnce(t) is polled at every
\* tick, one of those polls eventually returns true (the one at exactly
\* interval ticks, the first to do so).
C27_Liveness ==
    \A t \in MainTimers :
       /\ (Returned("Set") /\ call.t = t)
             ~> (/\ Returned("IsExpired") /\ call.t = t
                 /\ ret.bool
                 /\ arming[t].elapsed = arming[t].interval)
       /\ (Returned("Set") /\ call.t = t)
             ~> (/\ Returned("Remaining") /\ call.t = t
                 /\ ret.u32 = 0
                 /\ arming[t].elapsed = arming[t].interval)
       /\ (Returned("Set") /\ call.t = t /\ impl = "software_timer")
             ~> (/\ Returned("IsExpiredEvaluatedOnce") /\ call.t = t
                 /\ ret.bool
                 /\ arming[t].fired = 1
                 /\ arming[t].elapsed = arming[t].interval)
       /\ []((/\ call.t = t
              /\ arming[t].armed
              /\ arming[t].elapsed < arming[t].interval)
             => /\ (Returned("IsExpired") => ~ret.bool)
                /\ (Returned("IsExpiredEvaluatedOnce") => ~ret.bool)
                /\ (Returned("Remaining") =>
                      ret.u32 = arming[t].interval - arming[t].elapsed))

\* The one-shot poll returned true for a timer armed with the longest
\* interval, after as many ticks as that interval, each of them polled, in
\* the iteration in which IsExpired returned true for the first time.
C27_Witness ==
    /\ Returned("IsExpiredEvaluatedOnce")
    /\ ret.bool = TRUE
    /\ arming[call.t].armed
    /\ arming[call.t].interval = MaxInterval
    /\ arming[call.t].elapsed = MaxInterval
    /\ arming[call.t].fired = 1
    /\ arming[call.t].expired = 1
    /\ call.now = mock_time

====
